---- MODULE Spec2Model ----
(***************************************************************************)
(* Model of the videoX storyboard editor front end:                        *)
(*   - the edit session store  (useShotManager.ts, the React hook),        *)
(*   - its REST client         (shotApi.ts),                               *)
(*   - the character extraction pipeline (app/editor/page.tsx).            *)
(*                                                                         *)
(* The hook keeps React state (shots, script, characters, ...).  Every     *)
(* callback it hands out is a closure over the values of one render, so    *)
(* the model keeps two copies: the state itself, which functional updates  *)
(* (setShots(prev => ...)) read and write, and `view`, the values of the   *)
(* last render, which is what `shots.find`, `shots.length`,                *)
(* `currentProjectId`, `script` and `characters` inside a callback read.   *)
(* React 19 batches state updates and renders later; Render is that step.  *)
(*                                                                         *)
(* The back end is not part of the front-end sources; the gateway below    *)
(* follows the REST contract of the specification.                         *)
(***************************************************************************)
EXTENDS Integers, Sequences, FiniteSets, TLC

\* ------------------------------------------------------------------------
\* Bounds of the model
\* ------------------------------------------------------------------------
MaxCalls == 3
MaxInFlight == 2
\* operations invoked in the runs that follow the busy flags
MaxBusyCalls == 2

\* ------------------------------------------------------------------------
\* Values
\* ------------------------------------------------------------------------
Projects == {1, 2}
NoProject == 0

Contents == {"a", "b", "c"}
Prompts == {"p", "q"}
Positions == {"above", "below"}

Scripts == {"s", "{ }", " "}
CharMaps == { [n \in {} |-> "x"], [n \in {"A"} |-> "x"], [n \in {"B"} |-> "y"] }
NoChars == [n \in {} |-> "x"]

NoError == "null"
NoMessage == [id |-> 0, message |-> "none", type |-> "none"]

\* Partial<Pick<Shot, 'content' | 't2i_prompt'>>: a function on the keys present.
NoPatch == [f \in {} |-> ""]
ContentPatch(c) == [f \in {"content"} |-> c]
PromptPatch(p) == [f \in {"t2i_prompt"} |-> p]
\* the patches the editor page passes (page.tsx 590-600): one field each
Patches == {ContentPatch("c"), PromptPatch("q")}

NewShot(id, ord, c, p) == [shot_id |-> id, order |-> ord, content |-> c, t2i_prompt |-> p]

\* { ...shot, ...updates }
MergeShot(shot, updates) ==
    [shot EXCEPT !.content = IF "content" \in DOMAIN updates THEN updates["content"] ELSE @,
                 !.t2i_prompt = IF "t2i_prompt" \in DOMAIN updates THEN updates["t2i_prompt"] ELSE @]

\* a full shot record seen as an update object (its content and t2i_prompt keys)
ShotAsUpdates(shot) ==
    [f \in {"content", "t2i_prompt"} |-> IF f = "content" THEN shot.content ELSE shot.t2i_prompt]

\* { ...updatesA, ...updatesB } for two partial objects
MergeUpdates(a, b) ==
    [f \in (DOMAIN a) \cup (DOMAIN b) |-> IF f \in DOMAIN b THEN b[f] ELSE a[f]]

Ids(list) == {list[i].shot_id : i \in 1..Len(list)}
HasShot(list, id) == id \in Ids(list)
\* shots.find(s => s.shot_id === id), for an id in the list
FindShot(list, id) == list[CHOOSE i \in 1..Len(list) : list[i].shot_id = id]
IndexOf(list, id) == CHOOSE i \in 1..Len(list) : list[i].shot_id = id

\* a map that patches every shot of the list
MapAll(list, id, updates) ==
    [i \in 1..Len(list) |-> MergeShot(list[i], updates)]

\* prev.map(shot => shot.shot_id === id ? { ...shot, ...updates } : shot)
MapMerge(list, id, updates) ==
    [i \in 1..Len(list) |-> IF list[i].shot_id = id THEN MergeShot(list[i], updates) ELSE list[i]]

\* LLM providers, API keys ("" is unset) and base URLs ("" is not given)
Providers == {"groq", "siliconflow", "openai"}
Keys == {"", "k", "j"}
BaseURLs == {"", "u", "v"}

\* null, and a service instance: n tells the instances apart
NoClient == [n |-> 0, provider |-> "null", key |-> "", baseURL |-> ""]
\* createLLMService with the key in the place of the provider; only the
\* OpenAI client takes a base URL
createLLMService(n, provider, key, baseURL) ==
    [n |-> n, provider |-> provider, key |-> key,
     baseURL |-> IF provider = "openai" THEN baseURL ELSE ""]

NoClients == [p \in Providers |-> [client |-> NoClient, key |-> ""]]
NoCall == [provider |-> "null", key |-> "", baseURL |-> "", client |-> NoClient]

\* a reset that clears every provider whatever it is given
ResetEvery(cache, target) == NoClients

\* resetLLMClientCache(provider?): "all" is the call without argument
ResetCache(cache, target) ==
    [p \in Providers |->
        IF target = "all" \/ target = p THEN [client |-> NoClient, key |-> ""] ELSE cache[p]]

\* ------------------------------------------------------------------------
\* State
\* ------------------------------------------------------------------------
VARIABLES
    shots,              \* useState<Shot[]>
    currentProjectId,   \* useState<number | null>, NoProject for null
    script,             \* useState<string>
    characters,         \* useState<{[key: string]: string}>
    error,              \* useState<string | null>
    shotMessage,        \* useState<{id, message, type} | null>
    view,               \* the values of the last render, read by the callbacks
    mounted,            \* the component using the hook is mounted
    msgTimers,          \* the armed timeouts that clear shotMessage
    llmClientCache,     \* module-level cache of LLM clients, by provider
    llmCall,            \* the last getLLMClient call and what it returned
    busy,               \* the busy flags that are set (isLoadingShots, isDeletingShot, ...)
    saveTimers,         \* saveTimersRef.current: shot id -> the timeout stored for it
    armed,              \* the debounce timeouts set and neither expired nor cleared
    server,             \* the gateway's store: project -> shots, script, characters
    nextId,             \* the gateway's next shot id
    net,                \* requests in flight and responses not yet handled
    calls,              \* number of operations invoked so far
    ev                  \* the step taken last

hookVars == <<shots, currentProjectId, script, characters, error, shotMessage>>
gatewayVars == <<server, nextId>>
llmVars == <<llmClientCache, llmCall>>
vars == <<shots, currentProjectId, script, characters, error, shotMessage, view, mounted, msgTimers,
          llmClientCache, llmCall, busy,
          saveTimers, armed, server, nextId, net, calls, ev>>

Snapshot == [shots |-> shots, currentProjectId |-> currentProjectId,
             script |-> script, characters |-> characters]

\* ------------------------------------------------------------------------
\* Requests and responses
\* ------------------------------------------------------------------------
\* One record per request: `op` is the hook operation whose continuation waits
\* for it, `k` the REST call, `st` goes "req" -> "ok" | "err" when the gateway
\* has answered; the r-fields are the response body.
Msg(n, op, k, pid) ==
    [n |-> n, op |-> op, k |-> k, pid |-> pid, id |-> 0, pos |-> "none",
     body |-> NoPatch, list |-> <<>>, script |-> "", chars |-> NoChars,
     st |-> "req", rshots |-> <<>>, rscript |-> "", rchars |-> NoChars,
     text |-> <<>>, err |-> [text |-> "", has |-> {}]]

Requests == {m \in net : m.st = "req"}
Responses == {m \in net : m.st # "req"}
SaveRequests == {m \in net : m.k = "putShot"}

\* ------------------------------------------------------------------------
\* Persistence Gateway (REST contract of the back end)
\* ------------------------------------------------------------------------
Renumber(list) == [i \in 1..Len(list) |-> [list[i] EXCEPT !.order = i]]

SrvPutShot(list, id, body) == MapMerge(list, id, body)

SrvDelete(list, id) ==
    Renumber(SelectSeq(list, LAMBDA s : s.shot_id # id))

SrvInsert(list, ref, pos, id) ==
    LET i == IndexOf(list, ref)
        at == IF pos = "above" THEN i ELSE i + 1
    IN Renumber(SubSeq(list, 1, at - 1) \o <<NewShot(id, 0, "", "")>>
                \o SubSeq(list, at, Len(list)))

SrvAppend(list, id) == Append(list, NewShot(id, Len(list) + 1, "", ""))

SrvBulk(body, first) ==
    [i \in 1..Len(body) |-> MergeShot(NewShot(first + i - 1, i, "", ""), body[i])]

\* does the gateway accept the request (the shot it names exists)?
SrvAccepts(m) ==
    CASE m.k = "chat" -> FALSE
      [] m.k \in {"putShot", "deleteShot", "insertShot"} -> HasShot(server[m.pid].shots, m.id)
      [] OTHER -> TRUE

SrvShotsAfter(m) ==
    LET list == server[m.pid].shots IN
    CASE m.k = "putShot"    -> SrvPutShot(list, m.id, m.body)
      [] m.k = "deleteShot" -> SrvDelete(list, m.id)
      [] m.k = "insertShot" -> SrvInsert(list, m.id, m.pos, nextId)
      [] m.k = "postShot"   -> SrvAppend(list, nextId)
      [] m.k = "deleteAll"  -> <<>>
      [] m.k = "putBulk"    -> SrvBulk(m.list, nextId)
      [] OTHER              -> list

SrvIdsUsed(m) ==
    CASE m.k \in {"insertShot", "postShot"} -> 1
      [] m.k = "putBulk" -> Len(m.list)
      [] OTHER -> 0

\* the gateway executes a request and answers it
Serve(m) ==
    /\ m \in Requests
    /\ SrvAccepts(m)
    /\ LET after == [shots |-> SrvShotsAfter(m),
                     script |-> IF m.k \in {"putBulk", "putScript"} THEN m.script
                                ELSE server[m.pid].script,
                     characters |-> IF m.k \in {"putBulk", "putChars"} THEN m.chars
                                    ELSE server[m.pid].characters]
       IN /\ server' = [server EXCEPT ![m.pid] = after]
          /\ nextId' = nextId + SrvIdsUsed(m)
          /\ net' = (net \ {m}) \cup
                    {[m EXCEPT !.st = "ok", !.rshots = after.shots,
                               !.rscript = after.script, !.rchars = after.characters]}
    /\ ev' = [op |-> "serve", id |-> m.id, out |-> m.k, thrown |-> FALSE]
    /\ UNCHANGED <<hookVars, view, mounted, llmVars, busy, msgTimers, saveTimers, armed, calls>>

\* the request fails: network error or a non-2xx status, the store is unchanged
Fail(m) ==
    /\ m \in Requests
    /\ m.k # "chat"
    /\ net' = (net \ {m}) \cup {[m EXCEPT !.st = "err"]}
    /\ ev' = [op |-> "fail", id |-> m.id, out |-> m.k, thrown |-> FALSE]
    /\ UNCHANGED <<hookVars, view, mounted, llmVars, busy, msgTimers, saveTimers, armed, gatewayVars, calls>>

\* ------------------------------------------------------------------------
\* shotApi.ts: what the REST client makes of a response
\* ------------------------------------------------------------------------
\* a payload that is the object the caller passed
WholePayload(shotData) == shotData

\* saveShot: only content / t2i_prompt / characters that are not undefined are sent
ApiSavePayload(shotData) ==
    [f \in (DOMAIN shotData) \cap {"content", "t2i_prompt"} |-> shotData[f]]

\* getProjectInfo: a failed request is swallowed and answered { shots: [] }
GetProjectInfo(m) ==
    IF m.st = "ok"
    THEN [shots |-> m.rshots, script |-> m.rscript, characters |-> m.rchars]
    ELSE [shots |-> <<>>, script |-> "", characters |-> NoChars]

\* loadShots: a failed request is swallowed and answered []
ApiLoadShots(m) == IF m.st = "ok" THEN m.rshots ELSE <<>>

\* const lines = textContent.split('\n').filter(line => line.trim() !== '')
\* a text is modelled by its lines; " " is a blank line
TextLines(text) == SelectSeq(text, LAMBDA line : line # " ")
TextBody(text) == [i \in 1..Len(TextLines(text)) |-> ContentPatch(TextLines(text)[i])]

\* a || b || ... over the keys of a storyboard record: the first key that is
\* present with a non-empty value, else the default
FirstTruthy(rec, keys, default) ==
    IF \E i \in 1..Len(keys) : keys[i] \in DOMAIN rec /\ rec[keys[i]] # ""
    THEN rec[keys[CHOOSE i \in 1..Len(keys) :
                    /\ keys[i] \in DOMAIN rec /\ rec[keys[i]] # ""
                    /\ \A j \in 1..(i - 1) : ~(keys[j] \in DOMAIN rec /\ rec[keys[j]] # "")]]
    ELSE default

JsonBody(parsedShots) ==
    [i \in 1..Len(parsedShots) |->
        [f \in {"content", "t2i_prompt"} |->
            IF f = "content"
            THEN FirstTruthy(parsedShots[i], <<"original_text", "description", "content">>, "")
            ELSE FirstTruthy(parsedShots[i], <<"image_prompt", "t2i_prompt">>, "")]]

\* JSON.parse(jsonData) succeeded and parsedData.shots is an array
JsonHasShots(json) == json.kind = "shots"

\* ------------------------------------------------------------------------
\* useShotManager.ts: the hook
\* ------------------------------------------------------------------------
TimerSet(timers, id, t) ==
    [i \in (DOMAIN timers) \cup {id} |-> IF i = id THEN t ELSE timers[i]]
\* a timer table that keeps the entry it is asked to drop
TimerKept(timers, id) == timers

TimerDel(timers, id) == [i \in (DOMAIN timers) \ {id} |-> timers[i]]
NoTimers == [i \in {} |-> 0]

\* no timeout is cleared
KeepTimeouts(timers) == {}

\* Object.values(saveTimersRef.current).forEach(clearTimeout): the timeouts
\* that are cleared
ClearTimeouts(timers) == {timers[i] : i \in DOMAIN timers}

\* the timeout of a shot is left armed
KeepTimeout(timers, id) == {}

\* the timeout clearTimeout(saveTimersRef.current[id]) clears
ClearTimeout(timers, id) == IF id \in DOMAIN timers THEN {timers[id]} ELSE {}

\* the callbacks are called by the mounted component only
CanCall == mounted /\ calls < MaxCalls
CanSend == mounted /\ calls < MaxCalls /\ Cardinality(net) < MaxInFlight
\* the continuations whose catch block ends in `throw error`: a failure of the
\* awaited request rejects the promise the operation returned to its caller
Rethrowing == {"addShotPosted", "deleteShotDone", "insertShotDone", "deleteAllDeleted",
               "replaceShotsFromTextDone", "replaceShotsFromJsonDone"}

Throws(op, out) == op \in Rethrowing /\ out = "err"

Event(op, id, out) == [op |-> op, id |-> id, out |-> out, thrown |-> Throws(op, out)]

\* the busy flags of the hook and of the editor page; a flag is in `busy` while
\* its state is not the idle value (false, or null for the two shot ids)
Flags == {"isLoadingShots", "isDeletingShot", "isInsertingShot", "isDeletingAllShots",
          "isBulkUpdating", "isUpdatingScript", "isUpdatingCharacters",
          "isExtractingCharacters"}

\* a finally block that resets no flag
NoFlag(op) == "none"

\* the flag an operation sets before its try block and resets in its finally
BusyFlag(op) ==
    CASE op = "deleteShot" -> "isDeletingShot"
      [] op = "insertShot" -> "isInsertingShot"
      [] op \in {"replaceShotsFromText", "replaceShotsFromJson"} -> "isBulkUpdating"
      [] op = "saveScript" -> "isUpdatingScript"
      [] op = "saveCharacters" -> "isUpdatingCharacters"
      [] op = "deleteAllShots" -> "isDeletingAllShots"
      [] op = "extractCharactersFromScript" -> "isExtractingCharacters"
      [] OTHER -> "isLoadingShots"

\* React renders the hook: the callbacks of the new render see the current state
Render ==
    /\ mounted
    /\ view # Snapshot
    /\ view' = Snapshot
    /\ ev' = Event("render", 0, "ok")
    /\ UNCHANGED <<hookVars, mounted, llmVars, busy, msgTimers, saveTimers, armed, gatewayVars, net, calls>>

switchProject(projectId) ==
    /\ CanSend
    /\ view.currentProjectId # projectId
    /\ currentProjectId' = projectId
    /\ net' = net \cup {Msg(calls + 1, "switchProject", "getInfo", projectId)}
    /\ calls' = calls + 1
    /\ ev' = Event("switchProject", projectId, "sent")
    /\ UNCHANGED <<shots, script, characters, error, shotMessage, view, mounted, llmVars, msgTimers, saveTimers, armed, gatewayVars>>
    /\ busy' = busy \cup {"isLoadingShots"}

switchProjectDone(m) ==
    /\ m \in Responses /\ m.op = "switchProject"
    /\ LET projectInfo == GetProjectInfo(m)
       IN /\ shots' = projectInfo.shots
          /\ script' = projectInfo.script
          /\ characters' = projectInfo.characters
    /\ net' = net \ {m}
    /\ ev' = Event("switchProjectDone", m.pid, m.st)
    /\ UNCHANGED <<currentProjectId, error, shotMessage, view, mounted, llmVars, msgTimers, saveTimers, armed, gatewayVars, calls>>
    /\ busy' = busy \ {"isLoadingShots"}

loadShots ==
    /\ CanSend
    /\ view.currentProjectId # NoProject
    /\ error' = ""
    /\ net' = net \cup {Msg(calls + 1, "loadShots", "getShots", view.currentProjectId)}
    /\ calls' = calls + 1
    /\ ev' = Event("loadShots", 0, "sent")
    /\ UNCHANGED <<shots, currentProjectId, script, characters, shotMessage, view, mounted, llmVars, msgTimers,
                   saveTimers, armed, gatewayVars>>
    /\ busy' = busy \cup {"isLoadingShots"}

loadShotsDone(m) ==
    /\ m \in Responses /\ m.op = "loadShots"
    /\ shots' = ApiLoadShots(m)
    /\ net' = net \ {m}
    /\ ev' = Event("loadShotsDone", 0, m.st)
    /\ UNCHANGED <<currentProjectId, script, characters, error, shotMessage, view, mounted, llmVars, msgTimers,
                   saveTimers, armed, gatewayVars, calls>>
    /\ busy' = busy \ {"isLoadingShots"}

addShot ==
    /\ CanSend
    /\ view.currentProjectId # NoProject
    /\ net' = net \cup {Msg(calls + 1, "addShot", "postShot", view.currentProjectId)}
    /\ calls' = calls + 1
    /\ ev' = Event("addShot", 0, "sent")
    /\ UNCHANGED <<hookVars, view, mounted, llmVars, busy, msgTimers, saveTimers, armed, gatewayVars>>

\* apiAddShot: after the POST, the whole list is loaded again
addShotPosted(m) ==
    /\ m \in Responses /\ m.op = "addShot" /\ m.k = "postShot"
    /\ IF m.st = "ok"
       THEN /\ net' = (net \ {m}) \cup {Msg(m.n, "addShot", "getShots", m.pid)}
            /\ UNCHANGED error
       ELSE /\ net' = net \ {m}
            /\ error' = "addShot failed"
    /\ ev' = Event("addShotPosted", 0, m.st)
    /\ UNCHANGED <<shots, currentProjectId, script, characters, shotMessage, view, mounted, llmVars, busy, msgTimers,
                   saveTimers, armed, gatewayVars, calls>>

addShotDone(m) ==
    /\ m \in Responses /\ m.op = "addShot" /\ m.k = "getShots"
    /\ shots' = ApiLoadShots(m)
    /\ net' = net \ {m}
    /\ ev' = Event("addShotDone", 0, m.st)
    /\ UNCHANGED <<currentProjectId, script, characters, error, shotMessage, view, mounted, llmVars, busy, msgTimers,
                   saveTimers, armed, gatewayVars, calls>>

\* the ids a caller can name: the shots on screen and the shots in the state
KnownIds == Ids(view.shots) \cup Ids(shots)
NoShot == NewShot(0, 0, "", "")
ShotOf(list, id) == IF HasShot(list, id) THEN FindShot(list, id) ELSE NoShot

\* updateShotLocal: the optimistic update reads the state (functional update),
\* the debounced save is built from the rendered list (shots.find).  `after`
\* records the shot as it is in the state when the call returns and `patched`
\* the fields patched since the timer was first started; the program keeps
\* neither.
updateShotLocal(id, updates) ==
    /\ CanCall
    /\ id \in KnownIds
    /\ shots' = MapMerge(shots, id, updates)
    /\ IF view.currentProjectId # NoProject /\ HasShot(view.shots, id)
       THEN LET timeout == [id |-> id, h |-> calls + 1,
                            data |-> MergeUpdates(FindShot(view.shots, id), updates),
                            pid |-> view.currentProjectId,
                            after |-> ShotOf(shots', id),
                            patched |-> IF id \in DOMAIN saveTimers
                                        THEN MergeUpdates(saveTimers[id].patched, updates)
                                        ELSE updates]
            IN /\ saveTimers' = TimerSet(saveTimers, id, timeout)
               /\ armed' = (armed \ ClearTimeout(saveTimers, id)) \cup {timeout}
       ELSE UNCHANGED <<saveTimers, armed>>
    /\ calls' = calls + 1
    /\ ev' = Event("updateShotLocal", id, "ok")
    /\ UNCHANGED <<currentProjectId, script, characters, error, shotMessage, view, mounted, llmVars, busy, msgTimers,
                   gatewayVars, net>>

\* an armed timeout expires (3000 ms after the call that set it): its callback
\* sends the data it captured and deletes the table entry of its shot
timerFire(t) ==
    /\ t \in armed
    /\ shotMessage' = [id |-> t.id, message |-> "saving", type |-> "success"]
    /\ net' = net \cup
              {[Msg(100 * t.h + t.id, "autoSave", "putShot", t.pid)
                  EXCEPT !.id = t.id, !.body = ApiSavePayload(t.data)]}
    /\ armed' = armed \ {t}
    /\ saveTimers' = TimerDel(saveTimers, t.id)
    /\ ev' = Event("timerFire", t.id, "sent")
    /\ UNCHANGED <<shots, currentProjectId, script, characters, error, view, mounted, llmVars, busy, msgTimers,
                   gatewayVars, calls>>

\* a timeout set when a save has returned: after 3000 ms it clears shotMessage,
\* the one of a shot save only when the message is of its shot (own)
MessageTimeout(n, id, own) == [n |-> n, id |-> id, own |-> own]

\* prev => (prev?.id === id ? null : prev) of a shot save, null of the others
ClearMessage(t, message) ==
    IF t.own /\ message.id # t.id THEN message ELSE NoMessage

messageTimerFire(t) ==
    /\ t \in msgTimers
    /\ msgTimers' = msgTimers \ {t}
    /\ shotMessage' = ClearMessage(t, shotMessage)
    /\ ev' = Event("messageTimerFire", t.id, IF t.own THEN "own" ELSE "any")
    /\ UNCHANGED <<shots, currentProjectId, script, characters, error, view, mounted, llmVars, busy,
                   saveTimers, armed, gatewayVars, net, calls>>

\* a message that reports every save as done
SavedMessage(m) == [id |-> m.id, message |-> "saved", type |-> "success"]

\* the message set when the save request has returned
SaveMessage(m) ==
    IF m.st = "ok"
    THEN [id |-> m.id, message |-> "saved", type |-> "success"]
    ELSE [id |-> m.id, message |-> "save failed", type |-> "error"]

\* .then / .catch of the save a timer or saveShot issued
saveShotDone(m) ==
    /\ m \in Responses /\ m.op \in {"autoSave", "saveShot"}
    /\ shotMessage' = SaveMessage(m)
    /\ msgTimers' = msgTimers \cup {MessageTimeout(m.n, m.id, TRUE)}
    /\ net' = net \ {m}
    /\ ev' = Event("saveShotDone", m.id, m.st)
    /\ UNCHANGED <<shots, currentProjectId, script, characters, error, view, mounted, llmVars, busy,
                   saveTimers, armed, gatewayVars, calls>>

\* saveShot(id, updates) up to its await; apiSaveShot sends nothing for an
\* update object without fields and resolves at once
saveShotCall(id, updates, timers) ==
    /\ saveTimers' = timers
    /\ armed' = armed \ ClearTimeout(saveTimers, id)
    /\ IF view.currentProjectId = NoProject
       THEN UNCHANGED <<shotMessage, net>>
       ELSE IF ApiSavePayload(updates) = NoPatch
            THEN /\ shotMessage' = [id |-> id, message |-> "saved", type |-> "success"]
                 /\ UNCHANGED net
            ELSE /\ shotMessage' = [id |-> id, message |-> "saving", type |-> "success"]
                 /\ net' = net \cup
                        {[Msg(calls + 1, "saveShot", "putShot", view.currentProjectId)
                            EXCEPT !.id = id, !.body = ApiSavePayload(updates)]}
    /\ calls' = calls + 1
    /\ UNCHANGED <<shots, currentProjectId, script, characters, error, view, mounted, llmVars, busy, msgTimers, gatewayVars>>

handleShotBlur(id, updates) ==
    /\ CanSend
    /\ id \in KnownIds
    /\ saveShotCall(id,
                    IF HasShot(view.shots, id)
                    THEN MergeUpdates(FindShot(view.shots, id), updates)
                    ELSE updates,
                    TimerDel(saveTimers, id))
    /\ ev' = Event("handleShotBlur", id,
                   IF id \in DOMAIN saveTimers THEN "cancelled" ELSE "none")

\* a guard that lets the last shot go
NoShotLeft(list) == Len(list) < 1

\* shots.length <= 1
IsLastShot(list) == Len(list) <= 1

deleteShot(id) ==
    /\ CanCall
    /\ id \in KnownIds
    /\ view.currentProjectId # NoProject
    /\ IF IsLastShot(view.shots)
       THEN /\ error' = "keep one shot"
            /\ ev' = Event("deleteShot", id, "rejected")
            /\ UNCHANGED <<saveTimers, armed, net>>
       ELSE /\ Cardinality(net) < MaxInFlight
            /\ saveTimers' = TimerDel(saveTimers, id)
            /\ armed' = armed \ ClearTimeout(saveTimers, id)
            /\ net' = net \cup {[Msg(calls + 1, "deleteShot", "deleteShot", view.currentProjectId)
                                   EXCEPT !.id = id]}
            /\ ev' = Event("deleteShot", id, "sent")
            /\ UNCHANGED error
    /\ calls' = calls + 1
    /\ UNCHANGED <<shots, currentProjectId, script, characters, shotMessage, view, mounted, llmVars, msgTimers, gatewayVars>>
    /\ busy' = IF IsLastShot(view.shots) THEN busy ELSE busy \cup {"isDeletingShot"}

insertShot(referenceShotId, position) ==
    /\ CanSend
    /\ referenceShotId \in KnownIds
    /\ view.currentProjectId # NoProject
    /\ net' = net \cup {[Msg(calls + 1, "insertShot", "insertShot", view.currentProjectId)
                           EXCEPT !.id = referenceShotId, !.pos = position]}
    /\ calls' = calls + 1
    /\ ev' = Event("insertShot", referenceShotId, "sent")
    /\ UNCHANGED <<hookVars, view, mounted, llmVars, msgTimers, saveTimers, armed, gatewayVars>>
    /\ busy' = busy \cup {"isInsertingShot"}

\* a response read as holding no list
NoShotList(m) == <<>>

\* the list of the response body (data.shots, or the body when it is the list)
ApiShotList(m) == m.rshots

\* the continuation of deleteShot / insertShot / a bulk replace: the list the
\* gateway returned replaces the list in memory
listReplaceDone(m) ==
    /\ m \in Responses /\ m.k \in {"deleteShot", "insertShot", "putBulk"}
    /\ IF m.st = "ok"
       THEN shots' = ApiShotList(m) /\ UNCHANGED error
       ELSE error' = "request failed" /\ UNCHANGED shots
    /\ net' = net \ {m}
    /\ ev' = Event(m.op \o "Done", m.id, m.st)
    /\ UNCHANGED <<currentProjectId, script, characters, shotMessage, view, mounted, llmVars, msgTimers,
                   saveTimers, armed, gatewayVars, calls>>
    /\ busy' = busy \ {BusyFlag(m.op)}

\* a deletion that goes on whatever the user answers
Unasked(answer) == TRUE

\* confirm("..."): the answer the user gives in the dialog
Confirm(answer) == answer

deleteAllShots(confirmed) ==
    /\ CanSend
    /\ view.currentProjectId # NoProject
    /\ IF Confirm(confirmed)
       THEN /\ saveTimers' = NoTimers
            /\ armed' = armed \ ClearTimeouts(saveTimers)
            /\ net' = net \cup {Msg(calls + 1, "deleteAllShots", "deleteAll", view.currentProjectId)}
       ELSE UNCHANGED <<saveTimers, armed, net>>
    \* the step is recorded with the answer the user gave
    /\ ev' = Event("deleteAllShots", 0, IF confirmed THEN "sent" ELSE "declined")
    /\ calls' = calls + 1
    /\ UNCHANGED <<hookVars, view, mounted, llmVars, msgTimers, gatewayVars>>
    /\ busy' = IF Confirm(confirmed) THEN busy \cup {"isDeletingAllShots"} ELSE busy

\* after the DELETE, deleteAllShots awaits loadShots()
deleteAllDeleted(m) ==
    /\ m \in Responses /\ m.op = "deleteAllShots" /\ m.k = "deleteAll"
    /\ IF m.st = "ok"
       THEN /\ net' = (net \ {m}) \cup {Msg(m.n, "deleteAllShots", "getShots", m.pid)}
            /\ error' = ""
       ELSE /\ net' = net \ {m}
            /\ error' = "request failed"
    /\ ev' = Event("deleteAllDeleted", 0, m.st)
    /\ UNCHANGED <<shots, currentProjectId, script, characters, shotMessage, view, mounted, llmVars, msgTimers,
                   saveTimers, armed, gatewayVars, calls>>
    /\ busy' = IF m.st = "ok" THEN busy \cup {"isLoadingShots"}
                            ELSE busy \ {"isDeletingAllShots"}

deleteAllDone(m) ==
    /\ m \in Responses /\ m.op = "deleteAllShots" /\ m.k = "getShots"
    /\ shots' = ApiLoadShots(m)
    /\ net' = net \ {m}
    /\ ev' = Event("deleteAllDone", 0, m.st)
    /\ UNCHANGED <<currentProjectId, script, characters, error, shotMessage, view, mounted, llmVars, msgTimers,
                   saveTimers, armed, gatewayVars, calls>>
    /\ busy' = busy \ {"isLoadingShots", "isDeletingAllShots"}

\* texts a caller imports: lines of content, " " is a blank line
Texts == { <<" ">>, <<"b", " ", "a">> }

\* storyboard JSON a caller imports: blank, not JSON, JSON without a shots
\* array, or JSON with a shots array of records (a key may hold "")
Jsons == { [kind |-> "blank", shots |-> <<>>],
           [kind |-> "invalid", shots |-> <<>>],
           [kind |-> "noshots", shots |-> <<>>],
           [kind |-> "shots", shots |-> <<>>],
           [kind |-> "shots", shots |-> << [description |-> "a", image_prompt |-> "p"] >>],
           [kind |-> "shots", shots |-> << [original_text |-> "", description |-> "a",
                                            image_prompt |-> "", t2i_prompt |-> "p"] >>] }

replaceShotsFromText(text) ==
    /\ CanSend
    /\ view.currentProjectId # NoProject
    /\ IF TextLines(text) = <<>>
       THEN /\ error' = "text is empty"
            /\ ev' = Event("replaceShotsFromText", 0, "rejected")
            /\ UNCHANGED <<saveTimers, armed, net>>
       ELSE /\ saveTimers' = NoTimers
            /\ armed' = armed \ ClearTimeouts(saveTimers)
            /\ error' = ""
            /\ net' = net \cup {[Msg(calls + 1, "replaceShotsFromText", "getInfo", view.currentProjectId)
                                   EXCEPT !.list = TextBody(text)]}
            /\ ev' = Event("replaceShotsFromText", 0, "sent")
    /\ calls' = calls + 1
    /\ UNCHANGED <<shots, currentProjectId, script, characters, shotMessage, view, mounted, llmVars, msgTimers, gatewayVars>>
    /\ busy' = IF TextLines(text) = <<>> THEN busy ELSE busy \cup {"isBulkUpdating"}

replaceShotsFromJson(json) ==
    /\ CanSend
    /\ view.currentProjectId # NoProject
    /\ IF json.kind = "blank"
       THEN /\ error' = "json is empty"
            /\ ev' = Event("replaceShotsFromJson", 0, "rejected")
            /\ UNCHANGED <<shots, saveTimers, armed, net>>
       ELSE /\ saveTimers' = NoTimers
            /\ armed' = armed \ ClearTimeouts(saveTimers)
            /\ error' = ""
            /\ IF JsonHasShots(json)
               THEN /\ net' = net \cup
                          {[Msg(calls + 1, "replaceShotsFromJson", "getInfo", view.currentProjectId)
                              EXCEPT !.list = JsonBody(json.shots)]}
                    /\ ev' = Event("replaceShotsFromJson", 0, "sent")
                    /\ UNCHANGED shots
               \* apiReplaceShotsFromJson returned [] and the hook stores it
               ELSE /\ shots' = <<>>
                    /\ ev' = Event("replaceShotsFromJson", 0, "unparsed")
                    /\ UNCHANGED net
    /\ calls' = calls + 1
    /\ UNCHANGED <<currentProjectId, script, characters, shotMessage, view, mounted, llmVars, msgTimers, gatewayVars>>
    /\ busy' = IF json.kind = "blank" THEN busy
                ELSE IF JsonHasShots(json) THEN busy \cup {"isBulkUpdating"}
                \* the call has ended within the handler: finally has reset the flag
                ELSE busy \ {"isBulkUpdating"}

\* the bulk replace has read the project's script and characters and writes
\* them back with the new shots
replaceRead(m) ==
    /\ m \in Responses /\ m.k = "getInfo"
    /\ m.op \in {"replaceShotsFromText", "replaceShotsFromJson"}
    /\ LET projectInfo == GetProjectInfo(m)
       IN net' = (net \ {m}) \cup
                 {[Msg(m.n, m.op, "putBulk", m.pid)
                     EXCEPT !.list = m.list, !.script = projectInfo.script,
                            !.chars = projectInfo.characters]}
    /\ ev' = Event("replaceRead", 0, m.st)
    /\ UNCHANGED <<hookVars, view, mounted, llmVars, busy, msgTimers, saveTimers, armed, gatewayVars, calls>>

\* JSON.stringify(JSON.parse(script)) when the trimmed script is a JSON object
StringifyScript(s) == IF s \in {"{ }", "{}"} THEN "{}" ELSE s

updateScriptContent(newScript) ==
    /\ CanCall
    /\ view.currentProjectId # NoProject
    /\ script' = newScript
    /\ calls' = calls + 1
    /\ ev' = Event("updateScriptContent", 0, "ok")
    /\ UNCHANGED <<shots, currentProjectId, characters, error, shotMessage, view, mounted, llmVars, busy, msgTimers,
                   saveTimers, armed, gatewayVars, net>>

saveScript ==
    /\ CanSend
    /\ view.currentProjectId # NoProject
    /\ net' = net \cup {[Msg(calls + 1, "saveScript", "putScript", view.currentProjectId)
                           EXCEPT !.script = StringifyScript(view.script)]}
    /\ calls' = calls + 1
    /\ ev' = Event("saveScript", 0, "sent")
    /\ UNCHANGED <<hookVars, view, mounted, llmVars, msgTimers, saveTimers, armed, gatewayVars>>
    /\ busy' = busy \cup {"isUpdatingScript"}

\* a blur handler that saves the script
handleScriptBlurSaving ==
    /\ CanSend
    /\ net' = net \cup {[Msg(calls + 1, "saveScript", "putScript", view.currentProjectId)
                           EXCEPT !.script = StringifyScript(view.script)]}
    /\ calls' = calls + 1
    /\ ev' = Event("handleScriptBlur", 0, "ok")
    /\ UNCHANGED <<hookVars, view, mounted, llmVars, busy, msgTimers, saveTimers, armed, gatewayVars>>

\* handleScriptBlur clears the script timer if one is set; nothing in the hook
\* ever sets scriptSaveTimerRef, so the call changes nothing
handleScriptBlur ==
    /\ CanCall
    /\ calls' = calls + 1
    /\ ev' = Event("handleScriptBlur", 0, "ok")
    /\ UNCHANGED <<hookVars, view, mounted, llmVars, busy, msgTimers, saveTimers, armed, gatewayVars, net>>

updateCharactersInfo(newCharacters) ==
    /\ CanCall
    /\ view.currentProjectId # NoProject
    /\ characters' = newCharacters
    /\ calls' = calls + 1
    /\ ev' = Event("updateCharactersInfo", 0, "ok")
    /\ UNCHANGED <<shots, currentProjectId, script, error, shotMessage, view, mounted, llmVars, busy, msgTimers,
                   saveTimers, armed, gatewayVars, net>>

saveCharacters ==
    /\ CanSend
    /\ view.currentProjectId # NoProject
    /\ net' = net \cup {[Msg(calls + 1, "saveCharacters", "putChars", view.currentProjectId)
                           EXCEPT !.chars = view.characters]}
    /\ calls' = calls + 1
    /\ ev' = Event("saveCharacters", 0, "sent")
    /\ UNCHANGED <<hookVars, view, mounted, llmVars, msgTimers, saveTimers, armed, gatewayVars>>
    /\ busy' = busy \cup {"isUpdatingCharacters"}

\* the continuation of saveScript / saveCharacters
saveTextDone(m) ==
    /\ m \in Responses /\ m.op \in {"saveScript", "saveCharacters"}
    /\ IF m.st = "ok"
       THEN /\ shotMessage' = [id |-> 0, message |-> m.op \o " ok", type |-> "success"]
            /\ msgTimers' = msgTimers \cup {MessageTimeout(m.n, 0, FALSE)}
            /\ UNCHANGED error
       ELSE /\ error' = "request failed"
            /\ UNCHANGED <<shotMessage, msgTimers>>
    /\ net' = net \ {m}
    /\ ev' = Event(m.op \o "Done", 0, m.st)
    /\ UNCHANGED <<shots, currentProjectId, script, characters, view, mounted, llmVars, saveTimers, armed,
                   gatewayVars, calls>>
    /\ busy' = busy \ {BusyFlag(m.op)}

\* the component unmounts: the cleanup of the hook's effect clears every
\* timeout of the table (the table itself is left as it is); no callback of the
\* hook is called afterwards
unmount ==
    /\ mounted
    /\ mounted' = FALSE
    /\ armed' = armed \ ClearTimeouts(saveTimers)
    /\ ev' = Event("unmount", 0, IF armed = {} THEN "none" ELSE "cancelled")
    /\ UNCHANGED <<hookVars, view, msgTimers, llmVars, busy, saveTimers, gatewayVars, net, calls>>

\* ------------------------------------------------------------------------
\* app/editor/page.tsx: character extraction
\* ------------------------------------------------------------------------
\* A model response is a sequence of tokens.  "{" "}" "[" "]" ":" "," are the
\* JSON punctuation, "N" a newline, "S" a space, "J" the marker ```json, "T" a
\* bare ``` fence, "w" a word of prose; the other tokens are JSON string
\* literals, of which "z}" contains a closing brace.
StringTokens == {"A", "B", "x", "y", "z}"}
Blank(tok) == tok \in {"N", "S"}
HasOpenBrace(tok) == tok = "{"
HasCloseBrace(tok) == tok \in {"}", "z}"}

\* String.prototype.trim
TrimLeft(t) ==
    IF \E i \in 1..Len(t) : ~Blank(t[i])
    THEN SubSeq(t, CHOOSE i \in 1..Len(t) : ~Blank(t[i]) /\ \A j \in 1..(i - 1) : Blank(t[j]), Len(t))
    ELSE <<>>
TrimRight(t) ==
    IF \E i \in 1..Len(t) : ~Blank(t[i])
    THEN SubSeq(t, 1, CHOOSE i \in 1..Len(t) : ~Blank(t[i]) /\ \A j \in (i + 1)..Len(t) : Blank(t[j]))
    ELSE <<>>
Trim(t) == TrimRight(TrimLeft(t))

\* JSON.parse on a token sequence: a flat object of string members, an array
\* of strings or a string literal; anything else throws.  The result is the
\* value as a JS object: its own enumerable keys and their values.
NoWs(t) == SelectSeq(t, LAMBDA tok : ~Blank(tok))
Inner(t) == SubSeq(t, 2, Len(t) - 1)
IsMembers(t) ==
    /\ Len(t) % 4 = 3
    /\ \A i \in 1..Len(t) :
         CASE i % 4 = 1 -> t[i] \in StringTokens
           [] i % 4 = 2 -> t[i] = ":"
           [] i % 4 = 3 -> t[i] \in StringTokens
           [] OTHER     -> t[i] = ","
IsElements(t) ==
    /\ Len(t) % 2 = 1
    /\ \A i \in 1..Len(t) : IF i % 2 = 1 THEN t[i] \in StringTokens ELSE t[i] = ","
\* the members of an object, a later duplicate key wins
MembersMap(t) ==
    [k \in {t[i] : i \in {j \in 1..Len(t) : j % 4 = 1}} |->
        t[(CHOOSE i \in 1..Len(t) :
              /\ i % 4 = 1 /\ t[i] = k
              /\ \A j \in (i + 1)..Len(t) : ~(j % 4 = 1 /\ t[j] = k)) + 2]]
IndexKeys == <<"0", "1", "2">>
ElementsMap(t) ==
    [k \in {IndexKeys[i] : i \in 1..((Len(t) + 1) \div 2)} |->
        t[2 * (CHOOSE i \in 1..((Len(t) + 1) \div 2) : IndexKeys[i] = k) - 1]]

Thrown == [ok |-> FALSE, kind |-> "error", map |-> NoChars]
JsonParse(text) ==
    LET t == NoWs(text) IN
    IF Len(t) >= 2 /\ t[1] = "{" /\ t[Len(t)] = "}"
    THEN IF Len(t) = 2 THEN [ok |-> TRUE, kind |-> "object", map |-> NoChars]
         ELSE IF IsMembers(Inner(t))
              THEN [ok |-> TRUE, kind |-> "object", map |-> MembersMap(Inner(t))]
              ELSE Thrown
    ELSE IF Len(t) >= 2 /\ t[1] = "[" /\ t[Len(t)] = "]"
    THEN IF Len(t) = 2 THEN [ok |-> TRUE, kind |-> "array", map |-> NoChars]
         ELSE IF IsElements(Inner(t)) /\ Len(t) <= 7
              THEN [ok |-> TRUE, kind |-> "array", map |-> ElementsMap(Inner(t))]
              ELSE Thrown
    ELSE IF Len(t) = 1 /\ t[1] \in StringTokens
    \* a string: Object.keys gives the indices of its characters
    THEN [ok |-> TRUE, kind |-> "string", map |-> [k \in {"0"} |-> t[1]]]
    ELSE Thrown

\* response.match(/```json\n([\s\S]*?)\n```/): the leftmost marker followed
\* by a newline, then the shortest text up to a newline followed by a fence
\* (the marker itself begins with a fence)
FenceStarts(t) ==
    {i \in 1..Len(t) : /\ t[i] = "J" /\ i + 1 <= Len(t) /\ t[i + 1] = "N"
                       /\ \E j \in (i + 2)..(Len(t) - 1) : t[j] = "N" /\ t[j + 1] \in {"T", "J"}}
FenceMatch(t) ==
    IF FenceStarts(t) = {} THEN [found |-> FALSE, group |-> <<>>]
    ELSE LET i == CHOOSE a \in FenceStarts(t) : \A b \in FenceStarts(t) : a <= b
             ends == {j \in (i + 2)..(Len(t) - 1) : t[j] = "N" /\ t[j + 1] \in {"T", "J"}}
             j == CHOOSE a \in ends : \A b \in ends : a <= b
         IN [found |-> TRUE, group |-> SubSeq(t, i + 2, j - 1)]

\* response.match(/{[\s\S]*?}/): from the first opening brace to the first
\* closing brace after it; a closing brace inside a string literal cuts the
\* literal in two ("cut" is the unterminated rest)
BraceMatch(t) ==
    LET opens == {i \in 1..Len(t) : HasOpenBrace(t[i])} IN
    IF opens = {} THEN [found |-> FALSE, group |-> <<>>]
    ELSE LET i == CHOOSE a \in opens : \A b \in opens : a <= b
             closes == {j \in (i + 1)..Len(t) : HasCloseBrace(t[j])}
         IN IF closes = {} THEN [found |-> FALSE, group |-> <<>>]
            ELSE LET j == CHOOSE a \in closes : \A b \in closes : a <= b
                 IN [found |-> TRUE,
                     group |-> IF t[j] = "}" THEN SubSeq(t, i, j)
                               ELSE Append(SubSeq(t, i, j - 1), "cut")]

\* page.tsx 222-247: the three strategies and the check on Object.keys
ParseCharacters(response) ==
    LET trimmed == Trim(response)
        parsed ==
            IF Len(trimmed) > 0 /\ trimmed[1] = "{" /\ trimmed[Len(trimmed)] = "}"
            THEN JsonParse(response)
            ELSE IF \E i \in 1..Len(response) : response[i] = "J"
            THEN IF FenceMatch(response).found /\ FenceMatch(response).group # <<>>
                 THEN JsonParse(FenceMatch(response).group)
                 ELSE [ok |-> TRUE, kind |-> "object", map |-> NoChars]
            ELSE IF BraceMatch(response).found
                 THEN JsonParse(BraceMatch(response).group)
                 ELSE [ok |-> TRUE, kind |-> "object", map |-> NoChars]
    IN IF parsed.ok /\ DOMAIN parsed.map # {} THEN parsed ELSE Thrown

\* the settings in localStorage: absent, or the three OpenAI fields, "" when unset
Settings ==
    {[present |-> FALSE, openaiApiKey |-> "", openaiModel |-> "", openaiUrl |-> ""]} \cup
    [present : {TRUE}, openaiApiKey : {"", "k"}, openaiModel : {"", "m"}, openaiUrl : {"", "u"}]

\* an error: its message and which of the substrings the catch block looks for
\* occur in it
Err(text) == [text |-> text, has |-> {}]
NoErr == Err("")

\* page.tsx 156-194: reading and validating the settings; the first failed
\* check throws
ConfigError(settings) ==
    IF ~settings.present THEN Err("cannot read settings")
    ELSE IF settings.openaiApiKey = "" THEN Err("API key not set")
    ELSE IF settings.openaiModel = "" THEN Err("model not set")
    ELSE IF settings.openaiUrl = "" THEN Err("API url not set")
    ELSE NoErr

\* a classification that looks at the HTTP status first
ClassifyByStatus(e) ==
    IF "status code 4" \in e.has \/ "status code 5" \in e.has
    THEN "request failed: " \o e.text
    ELSE IF "API key" \in e.has THEN "invalid API key"
    ELSE IF "quota" \in e.has \/ "rate limit" \in e.has THEN "quota or rate limit"
    ELSE IF "model" \in e.has THEN "model unavailable"
    ELSE IF "URL" \in e.has \/ "network" \in e.has \/ "ECONNREFUSED" \in e.has
    THEN "cannot connect"
    ELSE e.text

\* page.tsx 270-303: the message shown for an error
ClassifyError(e) ==
    IF "API key" \in e.has THEN "invalid API key"
    ELSE IF "quota" \in e.has \/ "rate limit" \in e.has THEN "quota or rate limit"
    ELSE IF "model" \in e.has THEN "model unavailable"
    ELSE IF "URL" \in e.has \/ "network" \in e.has \/ "ECONNREFUSED" \in e.has
    THEN "cannot connect"
    ELSE IF "status code 4" \in e.has \/ "status code 5" \in e.has
    THEN "request failed: " \o e.text
    ELSE e.text

\* a test that takes every script as text to extract from
NeverBlank(s) == FALSE

\* script.trim() === ""
BlankScript(s) == s \in {"", " "}

\* which settings fields are unset, as a tag for the step record
MissingFields(settings) ==
    {f \in {"key", "model", "url"} :
        \/ ~settings.present
        \/ (f = "key" /\ settings.openaiApiKey = "")
        \/ (f = "model" /\ settings.openaiModel = "")
        \/ (f = "url" /\ settings.openaiUrl = "")}
MissingTag(settings) ==
    (IF "key" \in MissingFields(settings) THEN "K" ELSE "-") \o
    (IF "model" \in MissingFields(settings) THEN "M" ELSE "-") \o
    (IF "url" \in MissingFields(settings) THEN "U" ELSE "-")

\* extractCharactersFromScript up to its await of llmService.chat; the request
\* keeps what the closure captured: project, script and characters of its render
\* a chat that is sent again after the first request
ChatCallRepeated(n, render) ==
    {[Msg(k, "extractCharactersFromScript", "chat", render.currentProjectId)
        EXCEPT !.script = render.script, !.chars = render.characters] : k \in {n, n + 50}}

\* llmService.chat(messages, model, "openai"): the requests of one invocation,
\* made with the script and characters of the calling render
ChatCall(n, render) ==
    {[Msg(n, "extractCharactersFromScript", "chat", render.currentProjectId)
        EXCEPT !.script = render.script, !.chars = render.characters]}

extractCharactersFromScript(settings) ==
    /\ CanSend
    \* the button is disabled while an extraction runs (page.tsx 671)
    /\ ~\E m \in net : m.op = "extractCharactersFromScript"
    /\ IF view.currentProjectId = NoProject
       THEN /\ ev' = Event("extractCharactersFromScript", 0, "no project")
            /\ UNCHANGED <<net, error>>
       ELSE IF BlankScript(view.script)
       THEN /\ error' = "script is empty"
            /\ ev' = Event("extractCharactersFromScript", 0, "blank")
            /\ UNCHANGED net
       ELSE IF ConfigError(settings) # NoErr
       THEN /\ error' = ClassifyError(ConfigError(settings))
            /\ ev' = Event("extractCharactersFromScript", 0, MissingTag(settings))
            /\ UNCHANGED net
       ELSE /\ net' = net \cup ChatCall(calls + 1, view)
            /\ ev' = Event("extractCharactersFromScript", 0, "sent")
            /\ UNCHANGED error
    /\ calls' = calls + 1
    /\ UNCHANGED <<shots, currentProjectId, script, characters, shotMessage, view, mounted, llmVars, msgTimers,
                   saveTimers, armed, gatewayVars>>
    /\ busy' = IF view.currentProjectId = NoProject \/ BlankScript(view.script) THEN busy
                \* the settings error is thrown and caught in the handler: finally has reset the flag
                ELSE IF ConfigError(settings) # NoErr THEN busy \ {"isExtractingCharacters"}
                ELSE busy \cup {"isExtractingCharacters"}

\* the response is parsed; on success updateCharactersInfo(parsedResponse) and
\* saveCharacters() of the capturing render are called
extractParsed(m) ==
    /\ m \in Responses /\ m.k = "chat"
    /\ IF m.st = "err"
       THEN /\ error' = ClassifyError(m.err)
            /\ net' = net \ {m}
            /\ ev' = Event("extractParsed", m.n, "provider error")
            /\ UNCHANGED characters
       ELSE IF ~ParseCharacters(m.text).ok
       THEN /\ error' = ClassifyError(Err("cannot parse response"))
            /\ net' = net \ {m}
            /\ ev' = Event("extractParsed", m.n, "parse error")
            /\ UNCHANGED characters
       ELSE /\ characters' = ParseCharacters(m.text).map
            /\ net' = (net \ {m}) \cup
                      {[Msg(m.n, "extractCharactersFromScript", "putChars", m.pid)
                          EXCEPT !.chars = m.chars]}
            /\ ev' = Event("extractParsed", m.n, "committed")
            /\ UNCHANGED error
    /\ UNCHANGED <<shots, currentProjectId, script, shotMessage, view, mounted, llmVars, msgTimers, saveTimers, armed,
                   gatewayVars, calls>>
    /\ busy' = IF m.st = "ok" /\ ParseCharacters(m.text).ok
                THEN busy \cup {"isUpdatingCharacters"}
                ELSE busy \ {"isExtractingCharacters"}

\* saveCharacters has returned; the extraction reports success through setError
extractSaved(m) ==
    /\ m \in Responses /\ m.op = "extractCharactersFromScript" /\ m.k = "putChars"
    /\ shotMessage' = IF m.st = "ok"
                      THEN [id |-> 0, message |-> "saveCharacters ok", type |-> "success"]
                      ELSE shotMessage
    /\ msgTimers' = IF m.st = "ok"
                    THEN msgTimers \cup {MessageTimeout(m.n, 0, FALSE)}
                    ELSE msgTimers
    /\ error' = "characters extracted"
    /\ net' = net \ {m}
    /\ ev' = Event("extractSaved", m.n, m.st)
    /\ UNCHANGED <<shots, currentProjectId, script, characters, view, mounted, llmVars, saveTimers, armed,
                   gatewayVars, calls>>
    /\ busy' = busy \ {"isUpdatingCharacters", "isExtractingCharacters"}

\* ------------------------------------------------------------------------
\* Generation Gateway: answers a chat request with a text or an error
\* ------------------------------------------------------------------------
\* JSON.stringify of a flat object given as its members in order
Serialize(members) ==
    <<"{">> \o
    [i \in 1..(IF Len(members) = 0 THEN 0 ELSE 4 * Len(members) - 1) |->
        CASE i % 4 = 1 -> members[(i + 3) \div 4][1]
          [] i % 4 = 2 -> ":"
          [] i % 4 = 3 -> members[(i + 3) \div 4][2]
          [] OTHER     -> ","] \o
    <<"}">>
ObjectOf(members) ==
    [k \in {members[i][1] : i \in 1..Len(members)} |->
        members[CHOOSE i \in 1..Len(members) :
                   members[i][1] = k /\ \A j \in (i + 1)..Len(members) : members[j][1] # k][2]]

Bare(text) == text
Fenced(text) == <<"J", "N">> \o text \o <<"N", "T">>
Noisy(text) == <<"w", "S">> \o text \o <<"S", "w">>

MemberLists ==
    { <<>>, << <<"A", "x">> >>, << <<"B", "y">> >>, << <<"A", "z}">> >>,
      << <<"A", "x">>, <<"B", "y">> >>, << <<"A", "x">>, <<"A", "y">> >> }
ObjectTexts == {Serialize(ms) : ms \in MemberLists}
OtherTexts ==
    { <<"w">>, <<"{", "w", "}">>, <<"{", "A", ":", "x">>, <<"[", "A", "]">>,
      <<"[", "A", ",", "B", "]">>, <<"[", "]">>, <<"A">> }
Bodies == ObjectTexts \cup OtherTexts
ModelResponses ==
    {Bare(b) : b \in Bodies} \cup {Fenced(b) : b \in Bodies} \cup {Noisy(b) : b \in Bodies}
    \cup {<<"J", "S">> \o b \o <<"T">> : b \in ObjectTexts}
    \cup {<<"N">> \o b \o <<"N", "S">> : b \in ObjectTexts}

ProviderErrors ==
    { [text |-> "401 Incorrect API key", has |-> {"API key"}],
      [text |-> "model not found, status code 404", has |-> {"model", "status code 4"}],
      [text |-> "request timed out", has |-> {}],
      [text |-> "API key over quota", has |-> {"API key", "quota"}],
      [text |-> "rate limit reached for model", has |-> {"rate limit", "model"}],
      [text |-> "network error, status code 502", has |-> {"network", "status code 5"}],
      [text |-> "connect ECONNREFUSED", has |-> {"ECONNREFUSED"}],
      [text |-> "status code 500", has |-> {"status code 5"}] }

chatReply(m, text) ==
    /\ m \in Requests /\ m.k = "chat"
    /\ net' = (net \ {m}) \cup {[m EXCEPT !.st = "ok", !.text = text]}
    /\ ev' = Event("chatReply", m.n, "ok")
    /\ UNCHANGED <<hookVars, view, mounted, llmVars, busy, msgTimers, saveTimers, armed, gatewayVars, calls>>

chatFail(m, e) ==
    /\ m \in Requests /\ m.k = "chat"
    /\ net' = (net \ {m}) \cup {[m EXCEPT !.st = "err", !.err = e]}
    /\ ev' = Event("chatFail", m.n, "err")
    /\ UNCHANGED <<hookVars, view, mounted, llmVars, busy, msgTimers, saveTimers, armed, gatewayVars, calls>>

\* ------------------------------------------------------------------------
\* useShotManager.ts 36-141: the cache of LLM clients
\* ------------------------------------------------------------------------
resetLLMClientCache(target) ==
    /\ calls < MaxCalls
    /\ llmClientCache' = ResetCache(llmClientCache, target)
    /\ calls' = calls + 1
    /\ ev' = Event("resetLLMClientCache", 0, target)
    /\ UNCHANGED <<hookVars, view, mounted, busy, msgTimers, llmCall, saveTimers, armed,
                   gatewayVars, net>>

getLLMClient(provider, key, baseURL) ==
    /\ calls < MaxCalls
    /\ IF key = ""
       THEN /\ llmCall' = [provider |-> provider, key |-> key, baseURL |-> baseURL,
                           client |-> NoClient]
            /\ ev' = Event("getLLMClient", 0, "null")
            /\ UNCHANGED llmClientCache
       ELSE IF llmClientCache[provider].client = NoClient
               \/ llmClientCache[provider].key # key
       THEN LET created == createLLMService(calls + 1, provider, key, baseURL)
            IN /\ llmClientCache' =
                      [llmClientCache EXCEPT ![provider] = [client |-> created, key |-> key]]
               /\ llmCall' = [provider |-> provider, key |-> key, baseURL |-> baseURL,
                              client |-> created]
               /\ ev' = Event("getLLMClient", 0, "created")
       ELSE /\ llmCall' = [provider |-> provider, key |-> key, baseURL |-> baseURL,
                           client |-> llmClientCache[provider].client]
            /\ ev' = Event("getLLMClient", 0, "cached")
            /\ UNCHANGED llmClientCache
    /\ calls' = calls + 1
    /\ UNCHANGED <<hookVars, view, mounted, busy, msgTimers, saveTimers, armed, gatewayVars, net>>

\* ------------------------------------------------------------------------
\* Initial states
\* ------------------------------------------------------------------------
ServerInit ==
    [p \in Projects |->
        IF p = 1
        THEN [shots |-> <<NewShot(1, 1, "a", ""), NewShot(2, 2, "b", "p")>>,
              script |-> "s", characters |-> [n \in {"A"} |-> "x"]]
        ELSE [shots |-> <<NewShot(3, 1, "a", "")>>,
              script |-> "", characters |-> NoChars]]

\* the hook as constructed: nothing loaded, no project selected
Init ==
    /\ shots = <<>>
    /\ currentProjectId = NoProject
    /\ script = ""
    /\ characters = NoChars
    /\ error = NoError
    /\ shotMessage = NoMessage
    /\ view = Snapshot
    /\ mounted = TRUE
    /\ saveTimers = NoTimers
    /\ armed = {}
    /\ msgTimers = {}
    /\ llmClientCache = NoClients
    /\ llmCall = NoCall
    /\ busy = {}
    /\ server = ServerInit
    /\ nextId = 4
    /\ net = {}
    /\ calls = 0
    /\ ev = Event("init", 0, "ok")

\* the editor page after its mount effects (page.tsx 135-139): project 1
\* selected, loaded and rendered
InitLoaded ==
    /\ shots = ServerInit[1].shots
    /\ currentProjectId = 1
    /\ script = ServerInit[1].script
    /\ characters = ServerInit[1].characters
    /\ error = NoError
    /\ shotMessage = NoMessage
    /\ view = Snapshot
    /\ mounted = TRUE
    /\ saveTimers = NoTimers
    /\ armed = {}
    /\ msgTimers = {}
    /\ llmClientCache = NoClients
    /\ llmCall = NoCall
    /\ busy = {}
    /\ server = ServerInit
    /\ nextId = 4
    /\ net = {}
    /\ calls = 0
    /\ ev = Event("init", 0, "ok")

\* ------------------------------------------------------------------------
\* Next-state relations
\* ------------------------------------------------------------------------
Gateway == \E m \in net : Serve(m) \/ Fail(m)

ShotEdits ==
    \/ \E id \in KnownIds, u \in Patches : updateShotLocal(id, u)
    \/ \E t \in armed : timerFire(t)
    \/ \E id \in KnownIds, u \in Patches : handleShotBlur(id, u)
    \/ \E m \in net : saveShotDone(m)

ListOps ==
    \/ \E p \in Projects : switchProject(p)
    \/ \E m \in net : switchProjectDone(m)
    \/ loadShots
    \/ \E m \in net : loadShotsDone(m)
    \/ addShot
    \/ \E m \in net : addShotPosted(m)
    \/ \E m \in net : addShotDone(m)
    \/ \E id \in KnownIds : deleteShot(id)
    \/ \E id \in KnownIds, pos \in Positions : insertShot(id, pos)
    \/ \E m \in net : listReplaceDone(m)
    \/ \E c \in BOOLEAN : deleteAllShots(c)
    \/ \E m \in net : deleteAllDeleted(m)
    \/ \E m \in net : deleteAllDone(m)
    \/ \E t \in Texts : replaceShotsFromText(t)
    \/ \E j \in Jsons : replaceShotsFromJson(j)
    \/ \E m \in net : replaceRead(m)

TextOps ==
    \/ \E s \in Scripts : updateScriptContent(s)
    \/ saveScript
    \/ handleScriptBlur
    \/ \E c \in CharMaps : updateCharactersInfo(c)
    \/ saveCharacters
    \/ \E m \in net : saveTextDone(m)

\* shot editing with the list operations of the shot card (insert, delete)
NextEdit ==
    \/ Render
    \/ Gateway
    \/ ShotEdits
    \/ \E id \in KnownIds : deleteShot(id)
    \/ \E m \in net : listReplaceDone(m)

SpecEdit == InitLoaded /\ [][NextEdit]_vars

\* local edits with the operations that remove shots
NextFlush ==
    \/ Render
    \/ Gateway
    \/ \E id \in KnownIds, u \in Patches : updateShotLocal(id, u)
    \/ \E t \in armed : timerFire(t)
    \/ \E m \in net : saveShotDone(m)
    \/ \E id \in KnownIds : deleteShot(id)
    \/ \E c \in BOOLEAN : deleteAllShots(c)
    \/ \E m \in net : deleteAllDeleted(m)
    \/ \E m \in net : deleteAllDone(m)
    \/ \E t \in Texts : replaceShotsFromText(t)
    \/ \E j \in Jsons : replaceShotsFromJson(j)
    \/ \E m \in net : replaceRead(m)
    \/ \E m \in net : listReplaceDone(m)

SpecFlush == InitLoaded /\ [][NextFlush]_vars

\* script and character editing beside a debounced shot edit and a bulk replace
NextText ==
    \/ Render
    \/ Gateway
    \/ TextOps
    \/ \E id \in KnownIds, u \in Patches : updateShotLocal(id, u)
    \/ \E t \in armed : timerFire(t)
    \/ \E m \in net : saveShotDone(m)
    \/ \E t \in Texts : replaceShotsFromText(t)
    \/ \E m \in net : replaceRead(m)
    \/ \E m \in net : listReplaceDone(m)

SpecText == InitLoaded /\ [][NextText]_vars

\* shot editing until the component unmounts
NextTeardown == Render \/ Gateway \/ ShotEdits \/ unmount

SpecTeardown == InitLoaded /\ [][NextTeardown]_vars

\* a bulk replace beside the saves of the script and the characters, every
\* request served
NextRace ==
    \/ Render
    \/ \E m \in net : Serve(m)
    \/ TextOps
    \/ \E t \in Texts : replaceShotsFromText(t)
    \/ \E m \in net : replaceRead(m)
    \/ \E m \in net : listReplaceDone(m)

SpecRace == InitLoaded /\ [][NextRace]_vars

\* the saves of shots and script with the timeouts that clear their messages
NextMessage ==
    \/ Gateway
    \/ \E id \in KnownIds, u \in Patches : handleShotBlur(id, u)
    \/ \E m \in net : saveShotDone(m)
    \/ saveScript
    \/ \E m \in net : saveTextDone(m)
    \/ \E t \in msgTimers : messageTimerFire(t)

SpecMessage == InitLoaded /\ [][NextMessage]_vars

\* the list operations
NextList == Render \/ Gateway \/ ListOps

SpecList == InitLoaded /\ [][NextList]_vars

\* character extraction with the script and character operations
Extraction ==
    \/ \E st \in Settings : extractCharactersFromScript(st)
    \/ \E m \in net, text \in ModelResponses : chatReply(m, text)
    \/ \E m \in net, e \in ProviderErrors : chatFail(m, e)
    \/ \E m \in net : extractParsed(m)
    \/ \E m \in net : extractSaved(m)

NextExtract ==
    \/ Render
    \/ Gateway
    \/ Extraction
    \/ \E s \in Scripts : updateScriptContent(s)
    \/ \E c \in CharMaps : updateCharactersInfo(c)

SpecExtract == InitLoaded /\ [][NextExtract]_vars

\* character extraction beside the selection of a project, from the hook as
\* constructed
NextSelect ==
    \/ Render
    \/ Gateway
    \/ \E p \in Projects : switchProject(p)
    \/ \E m \in net : switchProjectDone(m)
    \/ Extraction

SpecSelect == Init /\ [][NextSelect]_vars

\* character extraction beside the selection of another project; the page is
\* rendered with the current state when the user acts on it
NextLate ==
    \/ Render
    \/ Gateway
    \/ \E p \in Projects : view = Snapshot /\ switchProject(p)
    \/ \E m \in net : switchProjectDone(m)
    \/ \E st \in Settings : view = Snapshot /\ extractCharactersFromScript(st)
    \/ \E m \in net, text \in ModelResponses : chatReply(m, text)
    \/ \E m \in net, e \in ProviderErrors : chatFail(m, e)
    \/ \E m \in net : extractParsed(m)
    \/ \E m \in net : extractSaved(m)

SpecLate == InitLoaded /\ [][NextLate]_vars

\* the operations that set a busy flag, each with an input for each of its
\* paths; the page is rendered with the current state when the user acts on it
UserOps ==
    \/ \E p \in Projects : view = Snapshot /\ calls < MaxBusyCalls /\ switchProject(p)
    \/ view = Snapshot /\ calls < MaxBusyCalls /\ loadShots
    \/ \E id \in Ids(view.shots) : view = Snapshot /\ calls < MaxBusyCalls /\ deleteShot(id)
    \/ \E id \in Ids(view.shots) : view = Snapshot /\ calls < MaxBusyCalls /\ insertShot(id, "below")
    \/ view = Snapshot /\ calls < MaxBusyCalls /\ deleteAllShots(TRUE)
    \/ \E t \in Texts : view = Snapshot /\ calls < MaxBusyCalls /\ replaceShotsFromText(t)
    \/ \E j \in {k \in Jsons : k.kind = "invalid" \/ Len(k.shots) = 1} :
          view = Snapshot /\ calls < MaxBusyCalls /\ replaceShotsFromJson(j)
    \/ view = Snapshot /\ calls < MaxBusyCalls /\ saveScript
    \/ view = Snapshot /\ calls < MaxBusyCalls /\ saveCharacters
    \/ \E st \in {t \in Settings : t.openaiModel = "m" /\ t.openaiUrl = "u"} :
          view = Snapshot /\ calls < MaxBusyCalls /\ extractCharactersFromScript(st)

\* the gateways answer the requests they hold
Answers ==
    \/ Gateway
    \/ \E m \in net, text \in {Bare(Serialize(<< <<"A", "x">> >>)), <<"w">>} : chatReply(m, text)
    \/ \E m \in net, e \in {e \in ProviderErrors : e.has = {}} : chatFail(m, e)

\* the code after an await runs once the awaited promise is settled
Continuations ==
    \/ \E m \in net : switchProjectDone(m)
    \/ \E m \in net : loadShotsDone(m)
    \/ \E m \in net : listReplaceDone(m)
    \/ \E m \in net : deleteAllDeleted(m)
    \/ \E m \in net : deleteAllDone(m)
    \/ \E m \in net : replaceRead(m)
    \/ \E m \in net : saveTextDone(m)
    \/ \E m \in net : extractParsed(m)
    \/ \E m \in net : extractSaved(m)

NextBusy ==
    \/ Render
    \/ UserOps
    \/ Answers
    \/ Continuations

\* every request is answered and every settled promise is continued
SpecBusy ==
    InitLoaded /\ [][NextBusy]_vars /\ WF_vars(Answers) /\ WF_vars(Continuations)

\* the fields of a shot that local edits change
Edited(shot) == [content |-> shot.content, t2i_prompt |-> shot.t2i_prompt]

\* onBlur={(e) => handleShotBlur(shot.shot_id, { content: e.target.value })}:
\* the value of a field as the textarea of the last render shows it
ShownField(id, f) == [g \in {f} |-> Edited(FindShot(view.shots, id))[g]]

\* editing the shots with every request served; the change and blur events of
\* the textareas come one at a time, each after the render of the one before
NextConverge ==
    \/ Render
    \/ \E m \in net : Serve(m)
    \/ \E id \in KnownIds, u \in Patches : view = Snapshot /\ updateShotLocal(id, u)
    \/ \E t \in armed : timerFire(t)
    \/ \E id \in Ids(view.shots), f \in {"content", "t2i_prompt"} :
          view = Snapshot /\ handleShotBlur(id, ShownField(id, f))
    \/ \E m \in net : saveShotDone(m)

SpecConverge == InitLoaded /\ [][NextConverge]_vars

\* the editor page shows the shot cards, and so takes edits of a shot, only
\* while isLoadingShots is false: {isLoadingShots ? <loading> : shots.map(...)}
ShotsShown == view = Snapshot /\ "isLoadingShots" \notin busy

\* debounced shot edits beside the selection of another project; the page is
\* rendered with the current state when the user acts on it
NextSwitch ==
    \/ Render
    \/ Gateway
    \/ \E p \in Projects : view = Snapshot /\ switchProject(p)
    \/ \E m \in net : switchProjectDone(m)
    \/ \E id \in Ids(view.shots), u \in Patches : ShotsShown /\ updateShotLocal(id, u)
    \/ \E t \in armed : timerFire(t)
    \/ \E m \in net : saveShotDone(m)

SpecSwitch == InitLoaded /\ [][NextSwitch]_vars

\* the cache of LLM clients
NextCache ==
    \/ \E p \in Providers, k \in Keys, u \in BaseURLs : getLLMClient(p, k, u)
    \/ \E t \in Providers \cup {"all"} : resetLLMClientCache(t)

SpecCache == Init /\ [][NextCache]_vars

Next ==
    \/ Render
    \/ Gateway
    \/ ShotEdits
    \/ ListOps
    \/ TextOps
    \/ Extraction
    \/ \E t \in msgTimers : messageTimerFire(t)
    \/ NextCache
    \/ unmount

Spec == Init /\ [][Next]_vars

\* ------------------------------------------------------------------------
\* Claims
\* ------------------------------------------------------------------------
NewRequests == net' \ net

\* C1: a run of updateShotLocal calls on one shot, each made while the timer of
\* the previous one is pending, issues no save at the calls and exactly one
\* save when the timer expires, and that save carries the shot as it was in
\* memory after the last call.
C1_DebouncedSaveIsMergedState ==
    [][ /\ (ev'.op = "updateShotLocal" => net' = net)
        /\ \A id \in DOMAIN saveTimers :
              (ev'.op = "timerFire" /\ ev'.id = id) =>
                  /\ Cardinality(NewRequests) = 1
                  /\ \A m \in NewRequests :
                        /\ m.k = "putShot" /\ m.id = id
                        /\ m.body = ApiSavePayload(saveTimers[id].after) ]_vars

\* C2: handleShotBlur on a shot with a pending debounce timer removes that
\* timer and issues exactly one save request for the shot, so the cancelled
\* timer cannot issue a second one.
C2_BlurCancelsAndSavesOnce ==
    [][ \A id \in DOMAIN saveTimers :
          (ev'.op = "handleShotBlur" /\ ev'.id = id) =>
              /\ id \notin DOMAIN saveTimers'
              /\ \A t \in armed' : t.id # id
              /\ net \subseteq net'
              /\ Cardinality(NewRequests) = 1
              /\ \A m \in NewRequests : m.k = "putShot" /\ m.id = id /\ m.st = "req" ]_vars

C2_Witness ==
    /\ ev.op = "handleShotBlur" /\ ev.out = "cancelled"
    /\ \E m \in Requests : m.op = "saveShot" /\ m.id = ev.id /\ m.n = calls

\* C3: deleteShot called while the list in memory holds exactly one shot is
\* rejected: no request is sent, the list is unchanged and an error is set.
C3_LastShotDeleteRejected ==
    [][ (ev'.op = "deleteShot" /\ Len(shots) = 1) =>
            /\ ev'.out = "rejected"
            /\ net' = net
            /\ shots' = shots
            /\ error' = "keep one shot" ]_vars

C5_FailedSwitchKeepsState ==
    [][ (ev'.op = "switchProjectDone" /\ ev'.out = "err") =>
            /\ shots' = shots
            /\ script' = script
            /\ characters' = characters ]_vars

\* C6: a bulk replace of the shot list keeps the saved script and the saved
\* character keys: what a reload returns after the replace is the script that
\* was stored before it, and every character key stored before it.
C6_BulkReplaceKeepsScriptAndCharacters ==
    [][ (ev'.op = "serve" /\ ev'.out = "putBulk") =>
            \A p \in Projects :
                /\ server'[p].script = server[p].script
                /\ DOMAIN server[p].characters \subseteq DOMAIN server'[p].characters ]_vars

\* C8: replaceShotsFromJson with data that is not JSON or has no shots array
\* changes neither the remote list nor the list in memory.
C8_UnparsedJsonChangesNothing ==
    [][ (ev'.op = "replaceShotsFromJson" /\ ev'.out = "unparsed") =>
            /\ shots' = shots
            /\ server' = server ]_vars

\* a response holds a non-empty object when some span from an opening to a
\* closing brace is the JSON text of an object with at least one member
HoldsObject(text) ==
    \E i \in 1..Len(text), j \in 1..Len(text) :
        /\ i < j /\ text[i] = "{" /\ text[j] = "}"
        /\ JsonParse(SubSeq(text, i, j)).ok
        /\ JsonParse(SubSeq(text, i, j)).kind = "object"
        /\ DOMAIN JsonParse(SubSeq(text, i, j)).map # {}

\* C7: when the model response holds no non-empty object, the extraction ends
\* with the parse error, the character map in memory keeps its value and no
\* characters request is issued.
C7_ParseFailureCommitsNothing ==
    [][ \A m \in net :
          ( /\ m.k = "chat" /\ m.st = "ok" /\ ~HoldsObject(m.text)
            /\ ev'.op = "extractParsed" /\ ev'.id = m.n ) =>
              /\ ev'.out = "parse error"
              /\ error' = "cannot parse response"
              /\ characters' = characters
              /\ ~\E r \in net' : r.k = "putChars" /\ r.n = m.n ]_vars

\* the settings fields an error message names
FieldsNamed(message) ==
    CASE message = "API key not set" -> {"key"}
      [] message = "model not set"   -> {"model"}
      [] message = "API url not set" -> {"url"}
      [] OTHER                       -> {}

\* C9: for every non-empty set of settings fields that are missing,
\* extractCharactersFromScript ends without a request to the Generation
\* Gateway and the error names exactly the missing fields.
C9_ConfigErrorNamesMissingFields ==
    [][ \A st \in Settings :
          ( /\ MissingFields(st) # {}
            /\ ev'.op = "extractCharactersFromScript" /\ ev'.out = MissingTag(st) ) =>
              /\ net' = net
              /\ FieldsNamed(error') = MissingFields(st) ]_vars

\* C10: the bare object, the object in a ```json block and the object inside
\* prose are parsed to the same character map, the map of the object.
C10_ThreeShapesOneMap ==
    [][ \A ms \in MemberLists \ {<<>>} : \A m \in net :
          ( /\ m.k = "chat" /\ m.st = "ok"
            /\ m.text \in {Bare(Serialize(ms)), Fenced(Serialize(ms)), Noisy(Serialize(ms))}
            /\ ev'.op = "extractParsed" /\ ev'.id = m.n ) =>
              /\ ev'.out = "committed"
              /\ characters' = ObjectOf(ms) ]_vars

\* C11: when the response of insertShot, deleteShot or addShot replaces the
\* list in memory while another shot has a pending debounce timer, that shot
\* still shows its local edit afterwards.
C11_ListReplaceKeepsPendingPatch ==
    [][ \A id \in DOMAIN saveTimers :
          ( /\ ev'.op \in {"deleteShotDone", "insertShotDone", "addShotDone"}
            /\ ev'.out = "ok" /\ ev'.id # id
            /\ HasShot(shots, id) /\ HasShot(shots', id) ) =>
              Edited(FindShot(shots', id)) = Edited(FindShot(shots, id)) ]_vars

\* C12: the save a debounce timer issues carries every field patched by the
\* updateShotLocal calls of its window, each with the value patched last.
C12_SaveCarriesEveryPatch ==
    [][ \A id \in DOMAIN saveTimers :
          (ev'.op = "timerFire" /\ ev'.id = id) =>
              \A m \in NewRequests : \A f \in DOMAIN saveTimers[id].patched :
                  f \in DOMAIN m.body /\ m.body[f] = saveTimers[id].patched[f] ]_vars

\* C13: the record a debounce timer sends is the shot as it is in memory when
\* the timer expires.
C13_SaveIsStateAtExpiry ==
    [][ \A id \in DOMAIN saveTimers :
          (ev'.op = "timerFire" /\ ev'.id = id /\ HasShot(shots, id)) =>
              \A m \in NewRequests : m.body = ApiSavePayload(ShotAsUpdates(FindShot(shots, id))) ]_vars

\* C14: a successful extraction issues a characters request whose payload is
\* the extracted map.
C14_ExtractionSavesExtractedMap ==
    [][ (ev'.op = "extractParsed" /\ ev'.out = "committed") =>
            \E r \in NewRequests :
                /\ r.k = "putChars"
                /\ r.chars = characters' ]_vars

\* C15: teardown sends nothing and leaves no debounce timer pending, and after
\* it no debounce timer fires and no shot save is issued.
C15_NoSaveAfterTeardown ==
    [][ /\ (ev'.op = "unmount" => net' = net /\ armed' = {})
        /\ (~mounted => /\ ev'.op # "timerFire"
                        /\ ~\E m \in NewRequests : m.k = "putShot" /\ m.st = "req") ]_vars

C15_Witness ==
    /\ ~mounted
    /\ ev.op = "unmount" /\ ev.out = "cancelled"
    /\ ~\E m \in net : m.op = "autoSave"

\* C16: each shot has at most one armed debounce timeout, the one its table
\* entry holds; updateShotLocal and handleShotBlur on one shot leave the
\* timeout and the table entry of every other shot as they are; a timeout that
\* expires removes the table entry of its shot.
C16_OneTimerPerShotIndependent ==
    [][ /\ \A t \in armed' :
              /\ t.id \in DOMAIN saveTimers' /\ saveTimers'[t.id] = t
              /\ \A u \in armed' : u.id = t.id => u = t
        /\ \A t \in armed :
              (ev'.op \in {"updateShotLocal", "handleShotBlur"} /\ ev'.id # t.id) =>
                  /\ t \in armed'
                  /\ saveTimers'[t.id] = saveTimers[t.id]
        /\ \A t \in armed :
              (ev'.op = "timerFire" /\ ev'.id = t.id) =>
                  t \notin armed' /\ t.id \notin DOMAIN saveTimers' ]_vars

C16_Witness ==
    /\ ev.op = "handleShotBlur" /\ ev.out = "cancelled"
    /\ \E t \in armed : t.id # ev.id /\ saveTimers[t.id] = t

\* C17: an accepted deleteShot leaves no armed timeout for the deleted shot,
\* and deleteAllShots and the bulk replaces, once started, leave none at all;
\* timeouts armed later are new ones, and only an armed timeout issues a
\* debounced save, so no timeout from before the operation saves a removed shot.
C17_RemovedShotsHaveNoTimer ==
    [][ /\ (ev'.op = "deleteShot" /\ ev'.out = "sent") =>
               \A t \in armed' : t.id # ev'.id
        /\ ( \/ (ev'.op = "deleteAllShots" /\ ev'.out = "sent")
             \/ (ev'.op \in {"replaceShotsFromText", "replaceShotsFromJson"}
                 /\ ev'.out \in {"sent", "unparsed"}) ) =>
               armed' = {}
        /\ \A t \in armed' \ armed : ev'.op = "updateShotLocal" /\ t.h = calls'
        /\ \A m \in NewRequests :
               (m.op = "autoSave" /\ m.st = "req") =>
                   \E t \in armed : t \notin armed' /\ t.id = m.id /\ ev'.op = "timerFire" ]_vars

\* deleteShot was accepted for a shot whose local edit had armed a timeout
\* that never fired
C17_Witness ==
    /\ ev.op = "deleteShot" /\ ev.out = "sent"
    /\ HasShot(shots, ev.id) /\ FindShot(shots, ev.id).content = "c"
    /\ shotMessage = NoMessage
    /\ armed = {}

\* C18: when a shot save fails, handling the failure leaves the shot list in
\* memory as it was, local edit included, and sets an error shotMessage for
\* the shot; nothing else in memory changes.
C18_FailedSaveKeepsLocalEdit ==
    [][ (ev'.op = "saveShotDone" /\ ev'.out = "err") =>
            /\ shots' = shots
            /\ shotMessage' = [id |-> ev'.id, message |-> "save failed", type |-> "error"]
            /\ <<currentProjectId, script, characters, error>>' =
               <<currentProjectId, script, characters, error>>
            /\ <<saveTimers, armed>>' = <<saveTimers, armed>> ]_vars

\* a failed save has been handled and the shot still shows the edit the
\* gateway never stored
C18_Witness ==
    /\ ev.op = "saveShotDone" /\ ev.out = "err"
    /\ shotMessage.type = "error"
    /\ HasShot(shots, ev.id) /\ FindShot(shots, ev.id).content = "c"
    /\ \A i \in 1..Len(server[1].shots) : server[1].shots[i].content # "c"

StrictlyOrdered(list) ==
    \A i \in 1..Len(list) : \A j \in 1..Len(list) : i < j => list[i].order < list[j].order

\* C20: a successful insertShot leaves in memory exactly the list the gateway
\* returned; and when, on the project whose only shot is shot 3, the list in
\* memory is the result of insertShot(3, above) and the response of
\* insertShot(3, below) is handled, the list has three shots in strictly
\* increasing order with shot 3 in the middle.
C20_InsertAboveThenBelow ==
    [][ \A m \in net :
          ( /\ m.op = "insertShot" /\ m.st = "ok"
            /\ ev'.op = "insertShotDone" /\ m \notin net' ) =>
              /\ shots' = m.rshots
              /\ ( /\ m.pid = 2 /\ m.id = 3 /\ m.pos = "below"
                   /\ Len(shots) = 2 /\ shots[2].shot_id = 3
                   /\ Len(m.rshots) = 3 ) =>
                     /\ Len(shots') = 3
                     /\ shots'[1].shot_id = shots[1].shot_id
                     /\ shots'[2].shot_id = 3
                     /\ shots'[3].shot_id \notin {3, shots[1].shot_id}
                     /\ StrictlyOrdered(shots') ]_vars

\* the second insert has been handled on the one-shot project
C20_Witness ==
    /\ ev.op = "insertShotDone" /\ ev.out = "ok"
    /\ currentProjectId = 2
    /\ Len(shots) = 3 /\ shots[1].shot_id = 4 /\ shots[2].shot_id = 3 /\ shots[3].shot_id = 5
    /\ shots = server[2].shots
    /\ net = {}
\* C21: after any sequence of switchProject calls, whatever the order in which
\* the gateway answers them, the shots, script and character map in memory are
\* those of the project named by currentProjectId: once the last outstanding
\* project read has been applied, the read applied is the one of the current
\* project.
SwitchesInFlight == {m \in net : m.op = "switchProject"}

C21_StateIsOfCurrentProject ==
    [][\A m \in SwitchesInFlight :
          (/\ ev'.op = "switchProjectDone"
           /\ m \notin net'
           /\ m.st = "ok"
           /\ SwitchesInFlight \ {m} = {})
          => /\ m.pid = currentProjectId'
             /\ shots' = m.rshots
             /\ script' = m.rscript
             /\ characters' = m.rchars]_vars

\* C22: no error raised inside a store operation escapes it: a step of loadShots,
\* addShot, deleteShot, insertShot, deleteAllShots, replaceShotsFromText,
\* replaceShotsFromJson, saveShot, saveScript or saveCharacters that handles a
\* failed request leaves a message for the user and does not reject the
\* promise of the operation.
StoreSteps == {"loadShotsDone", "addShotPosted", "addShotDone", "deleteShotDone",
               "insertShotDone", "deleteAllDeleted", "deleteAllDone",
               "replaceShotsFromTextDone", "replaceShotsFromJsonDone",
               "saveShotDone", "saveScriptDone", "saveCharactersDone"}

C22_NoErrorEscapes ==
    (ev.op \in StoreSteps /\ ev.out = "err") => ~ev.thrown

\* C23: one invocation of the character extraction issues at most one chat
\* request, chat requests are issued by nothing but an invocation, and the step
\* that handles a failed chat or an unparsable response issues no request and
\* leaves nothing of the invocation in flight.
ChatsSent == {m \in NewRequests : m.k = "chat" /\ m.st = "req"}

C23_OneChatPerExtraction ==
    [][/\ Cardinality(ChatsSent) <= 1
       /\ ChatsSent # {} => ev'.op = "extractCharactersFromScript"
       /\ (ev'.op = "extractParsed" /\ ev'.out \in {"provider error", "parse error"})
              => /\ {m \in NewRequests : m.st = "req"} = {}
                 /\ ~\E m \in net' : m.n = ev'.id]_vars

C23_Witness ==
    /\ ev.op = "extractParsed"
    /\ ev.out = "parse error"
    /\ calls >= 2

\* C24: a deleteAllShots call that the user does not confirm has no effect: it
\* sends no request, cancels no debounce timer and leaves the in-memory list
\* as it was.
C24_DeclinedDeleteAllDoesNothing ==
    [][(ev'.op = "deleteAllShots" /\ ev'.out = "declined")
          => /\ net' = net
             /\ armed' = armed
             /\ saveTimers' = saveTimers
             /\ shots' = shots]_vars

C24_Witness ==
    /\ ev.op = "deleteAllShots"
    /\ ev.out = "declined"
    /\ armed # {}
    /\ net # {}

\* C25: when the read of the script and character map that precedes a bulk
\* replace fails, the replace does not write an empty script or an empty
\* character map: the write it issues, if any, carries the values the remote
\* project holds.
C25_FailedReadWritesNoEmptyText ==
    [][(ev'.op = "replaceRead" /\ ev'.out = "err")
          => \A r \in NewRequests :
                 r.k = "putBulk" => /\ r.script = server[r.pid].script
                                    /\ r.chars = server[r.pid].characters]_vars

\* C26: when a saveScript or a saveCharacters completes at the gateway between
\* the read of a bulk replace and its write, the remote script and characters
\* after the replace are the newly saved values: with every read served, the
\* write of a bulk replace changes neither.
C26_ReplaceKeepsConcurrentSave ==
    [][\A m \in net :
          (m.k = "putBulk" /\ m.st = "req" /\ m \notin net' /\ ev'.op = "serve")
             => /\ server'[m.pid].script = server[m.pid].script
                /\ server'[m.pid].characters = server[m.pid].characters]_vars

\* C27: updateShotLocal(id, patch) changes the list in memory in the call
\* itself, with no request sent, and only in the patched fields of the shot
\* id: the length and sequence of the list, every other shot, and the shot_id,
\* order and unpatched fields of the shot id stay as they were.
PatchedOnly(before, after, updates) ==
    /\ after.shot_id = before.shot_id
    /\ after.order = before.order
    /\ \A f \in {"content", "t2i_prompt"} :
           Edited(after)[f] = IF f \in DOMAIN updates THEN updates[f] ELSE Edited(before)[f]

C27_LocalUpdateTouchesPatchedFieldsOnly ==
    [][ev'.op = "updateShotLocal"
          => /\ net' = net
             /\ Len(shots') = Len(shots)
             /\ \E u \in Patches :
                   \A i \in 1..Len(shots) :
                      IF shots[i].shot_id = ev'.id
                      THEN PatchedOnly(shots[i], shots'[i], u)
                      ELSE shots'[i] = shots[i]]_vars

C27_Witness ==
    /\ ev.op = "updateShotLocal"
    /\ Len(shots) >= 2
    /\ HasShot(shots, ev.id)
    /\ FindShot(shots, ev.id).t2i_prompt = "q"
    /\ \E i \in 1..Len(shots) : shots[i].content = "c" /\ shots[i].shot_id # ev.id

\* C28: every completed save sets a shotMessage for its entity, and that
\* message is cleared by its own timer and by nothing else: only the expiry of
\* a message timer clears a message, and the timer of one entity never clears
\* the message of another entity.
C28_MessageClearedByOwnTimerOnly ==
    [][/\ (ev'.op \in {"saveShotDone", "saveScriptDone", "saveCharactersDone"} /\ ev'.out = "ok")
          => (shotMessage' # NoMessage /\ shotMessage'.id = ev'.id)
       /\ (shotMessage # NoMessage /\ shotMessage' = NoMessage)
          => (ev'.op = "messageTimerFire" /\ shotMessage.id = ev'.id)]_vars

\* C29: the three parsing strategies are tried in order, a later one whenever
\* an earlier one yields no parsed object: a response in braces that is not
\* valid JSON, or one with a ```json marker whose block does not match or does
\* not parse, is still parsed by the loose scan, and what the first successful
\* strategy yields is committed.
WholeParse(response) ==
    LET trimmed == Trim(response) IN
    IF Len(trimmed) > 0 /\ trimmed[1] = "{" /\ trimmed[Len(trimmed)] = "}"
    THEN JsonParse(response) ELSE Thrown
FenceParse(response) ==
    IF FenceMatch(response).found /\ FenceMatch(response).group # <<>>
    THEN JsonParse(FenceMatch(response).group) ELSE Thrown
LooseParse(response) ==
    IF BraceMatch(response).found THEN JsonParse(BraceMatch(response).group) ELSE Thrown
Yields(parsed) == parsed.ok /\ DOMAIN parsed.map # {}
InOrder(response) ==
    IF Yields(WholeParse(response)) THEN WholeParse(response)
    ELSE IF Yields(FenceParse(response)) THEN FenceParse(response)
    ELSE LooseParse(response)

C29_LaterStrategyAfterFailedEarlier ==
    [][\A m \in net :
          (/\ m.k = "chat" /\ m.st = "ok" /\ m \notin net'
           /\ ev'.op = "extractParsed"
           /\ Yields(InOrder(m.text)))
          => /\ ev'.out = "committed"
             /\ characters' = InOrder(m.text).map]_vars

\* C30: replaceShotsFromJson maps each record of the storyboard to a shot whose
\* content is the value of the first key present among original_text,
\* description, content and whose t2i_prompt is the value of the first key
\* present among image_prompt, t2i_prompt; a key present with an empty value
\* counts as present.
FirstPresent(rec, keys, default) ==
    IF \E i \in 1..Len(keys) : keys[i] \in DOMAIN rec
    THEN rec[keys[CHOOSE i \in 1..Len(keys) :
                    /\ keys[i] \in DOMAIN rec
                    /\ \A j \in 1..(i - 1) : keys[j] \notin DOMAIN rec]]
    ELSE default

PresentBody(parsedShots) ==
    [i \in 1..Len(parsedShots) |->
        [f \in {"content", "t2i_prompt"} |->
            IF f = "content"
            THEN FirstPresent(parsedShots[i], <<"original_text", "description", "content">>, "")
            ELSE FirstPresent(parsedShots[i], <<"image_prompt", "t2i_prompt">>, "")]]

C30_JsonMapsFirstPresentKey ==
    [][(ev'.op = "replaceShotsFromJson" /\ ev'.out = "sent")
          => \A r \in NewRequests, j \in Jsons :
                 (JsonHasShots(j) /\ r.list = JsonBody(j.shots))
                    => r.list = PresentBody(j.shots)]_vars

\* C31: the classification of a provider error gives each kind (credential,
\* quota, model, network, HTTP, unrecognized) its own message; an error whose
\* text matches several kinds gets the message of the first of them in the
\* order credential, quota, model, network, HTTP; the configuration and parse
\* errors of the pipeline keep their own message.
KindsOf(e) ==
    {k \in {"credential", "quota", "model", "network", "http"} :
        CASE k = "credential" -> "API key" \in e.has
          [] k = "quota"      -> e.has \cap {"quota", "rate limit"} # {}
          [] k = "model"      -> "model" \in e.has
          [] k = "network"    -> e.has \cap {"URL", "network", "ECONNREFUSED"} # {}
          [] OTHER            -> e.has \cap {"status code 4", "status code 5"} # {}}

Precedence == <<"credential", "quota", "model", "network", "http">>

FirstKind(e) ==
    IF KindsOf(e) = {} THEN "unrecognized"
    ELSE Precedence[CHOOSE i \in 1..5 :
                       /\ Precedence[i] \in KindsOf(e)
                       /\ \A j \in 1..(i - 1) : Precedence[j] \notin KindsOf(e)]

KindMessage(kind, e) ==
    CASE kind = "credential" -> "invalid API key"
      [] kind = "quota"      -> "quota or rate limit"
      [] kind = "model"      -> "model unavailable"
      [] kind = "network"    -> "cannot connect"
      [] kind = "http"       -> "request failed: " \o e.text
      [] OTHER               -> e.text

PipelineErrors ==
    {ConfigError(st) : st \in Settings} \cup {Err("cannot parse response")}

C31_ClassificationByPrecedence ==
    [][/\ (ev'.op = "extractParsed" /\ ev'.out = "provider error")
            => /\ \A m \in net :
                    (m.k = "chat" /\ m.st = "err" /\ m \notin net')
                       => error' = KindMessage(FirstKind(m.err), m.err)
               /\ \A a \in ProviderErrors, b \in ProviderErrors :
                    FirstKind(a) # FirstKind(b) => ClassifyError(a) # ClassifyError(b)
       /\ (ev'.op = "extractParsed" /\ ev'.out = "parse error")
            => error' = "cannot parse response"
       /\ (ev'.op = "extractCharactersFromScript" /\ ev'.out \notin {"no project", "blank", "sent"})
            => error' \in {e.text : e \in PipelineErrors}]_vars

C31_Witness ==
    /\ ev.op = "extractParsed"
    /\ ev.out = "provider error"
    /\ error = "model unavailable"

\* C32: extractCharactersFromScript called with no current project, or with a
\* script that is empty or only whitespace, sends no request to the Generation
\* Gateway or to the store and leaves shots, script and character map as they
\* were.
NothingToExtract ==
    \/ (view.currentProjectId = NoProject /\ currentProjectId = NoProject)
    \/ (view.script \in {"", " "} /\ script \in {"", " "})

ListPlace(list, id) == <<IndexOf(list, id), FindShot(list, id).order>>

C33_ClientNeverSetsOrder ==
    [][/\ \A r \in NewRequests :
            (r.k = "putShot" /\ r.st = "req")
               => DOMAIN r.body \cap {"order", "shot_id"} = {}
       /\ \A id \in Ids(shots) \cap Ids(shots') :
            ListPlace(shots', id) # ListPlace(shots, id)
               => ev'.op \in {"deleteShotDone", "insertShotDone"}]_vars

C33_Witness ==
    /\ ev.op = "handleShotBlur"
    /\ \E m \in Requests :
          /\ m.k = "putShot" /\ m.n = calls
          /\ DOMAIN m.body = {"content", "t2i_prompt"}
    /\ Len(shots) = 1

\* C34: resetLLMClientCache(p) clears the cached client and key of provider p
\* and leaves the entries of the other providers as they were, the call without
\* argument clears all three, and a getLLMClient for a provider whose entry is
\* cleared returns a client created in that call.
C34_ResetClearsOneProvider ==
    [][/\ ev'.op = "resetLLMClientCache"
            => \A p \in Providers :
                  IF ev'.out \in {"all", p}
                  THEN llmClientCache'[p] = [client |-> NoClient, key |-> ""]
                  ELSE llmClientCache'[p] = llmClientCache[p]
       /\ (/\ ev'.op = "getLLMClient"
           /\ llmCall'.key # ""
           /\ llmClientCache[llmCall'.provider].client = NoClient)
            => /\ llmCall'.client.n = calls'
               /\ llmClientCache'[llmCall'.provider].client = llmCall'.client]_vars

C34_Witness ==
    /\ ev.op = "resetLLMClientCache"
    /\ ev.out = "groq"
    /\ llmCall.provider = "groq"
    /\ llmCall.client # NoClient
    /\ llmClientCache["groq"].client = NoClient
    /\ llmClientCache["openai"].client # NoClient

\* C35: the client getLLMClient(provider, key, baseURL) returns is configured
\* with the key and the base URL of that call, whatever calls came before, and
\* null is returned when the key is empty.
C35_ClientHasKeyAndUrlOfCall ==
    [][ev'.op = "getLLMClient"
          => IF llmCall'.key = ""
             THEN llmCall'.client = NoClient
             ELSE /\ llmCall'.client.provider = llmCall'.provider
                  /\ llmCall'.client.key = llmCall'.key
                  /\ llmCall'.client.baseURL =
                        IF llmCall'.provider = "openai" THEN llmCall'.baseURL ELSE ""]_vars

\* C36: whatever the interleaving of updateShotLocal, handleShotBlur, timer
\* expiries and deliveries of the save requests (in any order, none failing),
\* once no timer is pending and no request is in flight the copy of each shot
\* at the gateway has the content and t2i_prompt of the copy in memory.
C36_SavesConverge ==
    (armed = {} /\ net = {})
       => \A i \in 1..Len(shots) :
             /\ HasShot(server[currentProjectId].shots, shots[i].shot_id)
             /\ Edited(FindShot(server[currentProjectId].shots, shots[i].shot_id))
                   = Edited(shots[i])

\* C37: a debounced save is sent to the project its edit was made in, with the
\* data of that project's shot, also when another project has been selected
\* before the timer expires: switchProject cancels no pending timer, and the
\* save a timer sends goes to the project that holds the edited shot.
C37_SaveGoesToProjectOfEdit ==
    [][/\ ev'.op = "switchProject" => (armed' = armed /\ saveTimers' = saveTimers)
       /\ ev'.op = "timerFire"
            => \A r \in NewRequests :
                  r.st = "req" => HasShot(server[r.pid].shots, r.id)]_vars

\* C38: the response of an extraction started in project P that is handled
\* after another project Q has been selected is not applied to Q: the
\* characters in memory stay as they are, and no characters request it sends
\* goes to Q. The step looked at is the one taken when Q is loaded and shown.
C38_LateExtractionNotApplied ==
    [][(ev'.op = "extractParsed" /\ ShotsShown)
          => \A m \in net \ net' :
                (m.k = "chat" /\ m.pid # currentProjectId)
                   => /\ characters' = characters
                      /\ \A r \in NewRequests : r.pid # currentProjectId]_vars
\* C39: every busy flag that is set is reset later on, whether the requests of
\* its operation succeed or fail, given that every request is answered and
\* every continuation runs: no flag stays set for ever.
C39_BusyFlagsAreReset ==
    \A f \in Flags : (f \in busy) ~> (f \notin busy)

\* a failed request has been handled and no flag is left set
C39_Witness ==
    /\ ev.op \in {"deleteShotDone", "deleteAllDeleted", "saveScriptDone", "switchProjectDone"}
    /\ ev.out = "err"
    /\ busy = {}
\* C40: saveScript, called from a render that shows the script in memory, sends
\* the gateway exactly that text, whatever the text is (a JSON object written
\* with whitespace included), and leaves the script in memory as it is.
C40_SaveScriptSendsScriptAsIs ==
    [][(ev'.op = "saveScript" /\ view = Snapshot)
          => /\ script' = script
             /\ \A r \in NewRequests : r.script = script]_vars
====
